---------------------------- MODULE Spec2Model ----------------------------
(***************************************************************************)
(* A model of linalgrs: the Matrix entity (src/src/matrix.rs), the         *)
(* MatrixUtilities algorithms (src/src/matrix_utilities.rs) and the linear *)
(* System solver (src/src/system.rs).                                      *)
(*                                                                         *)
(* A Matrix<T> is the record [mat, rows, cols]: mat is the Vec of rows,    *)
(* rows and cols are the two cached usize fields.  Rust indexes from 0,    *)
(* TLA+ sequences from 1: a Rust index i is the TLA+ index i + 1, and a    *)
(* Rust range lo..hi is the TLA+ interval lo+1..hi.                        *)
(*                                                                         *)
(* The scalar type T is instantiated twice: with the integers (i64 in the  *)
(* repository's determinant and transpose tests; the entries are far from  *)
(* the overflow range) and with the rationals, the exact arithmetic the    *)
(* row-reduction properties are stated over.  A rational is a pair <<n, d>> *)
(* in lowest terms with d > 0.                                             *)
(*                                                                         *)
(* A call that aborts (an index out of bounds, a division by zero in an    *)
(* exact type) returns the value Panic.                                    *)
(***************************************************************************)
EXTENDS Integers, Sequences, FiniteSets, TLC

VARIABLES
    self,     \* the Matrix the caller built and passes to the first call
    arg,      \* the second argument of the call (NoArg when there is none)
    calls,    \* the names of the operations applied so far, in order
    rets      \* rets[i] is what calls[i] returned

vars == <<self, arg, calls, rets>>

---------------------------------------------------------------------------
(* Bounds of the model *)

\* entries of the enumerated matrices are drawn from -MaxVal..MaxVal
MaxVal == 1
\* a shape with at most FullCells cells is enumerated entry by entry; a
\* larger one is built from the rows RowsFor gives
FullCells == 6
\* length of a chain of calls, each applied to the previous result
MaxCalls == 3

Vals == (0 - MaxVal)..MaxVal

\* what a call returns is a record: a Matrix [mat, rows, cols], an Option
\* (None, Some), a Result (Ok, Err), or Panic when the call aborted
NoArg == [tag |-> "NoArg"]
Panic == [tag |-> "Panic"]
None == [tag |-> "None"]

Some(x) == [tag |-> "Some", val |-> x]
Ok(x) == [tag |-> "Ok", val |-> x]
Err(msg) == [tag |-> "Err", msg |-> msg]

IsMatrix(r) == "mat" \in DOMAIN r
IsOk(r) == "tag" \in DOMAIN r /\ r.tag = "Ok"
IsErr(r) == "tag" \in DOMAIN r /\ r.tag = "Err"

Min(x, y) == IF x <= y THEN x ELSE y
Abs(x) == IF x < 0 THEN 0 - x ELSE x

---------------------------------------------------------------------------
(* Matrix: src/src/matrix.rs *)

\* struct Matrix { mat, rows, cols }
Matrix(m, r, c) == [mat |-> m, rows |-> r, cols |-> c]

\* Matrix::default()
Default == Matrix(<<>>, 0, 0)

\* Matrix::shape: (mat.len(), mat[0].len() or 0), written back to the fields
shape(m) ==
    LET r == Len(m.mat)
    IN  <<r, IF r > 0 THEN Len(m.mat[1]) ELSE 0>>

\* the receiver after shape(): its cached fields refreshed
Reshaped(m) == [m EXCEPT !.rows = shape(m)[1], !.cols = shape(m)[2]]

\* the sign of the cofactor of column col (0-based): T::default() + one
\* for an even column, T::default() - one for an odd one
LaplaceSignAlwaysPlus(col) == 0 + 1

LaplaceSign(col) == IF col % 2 = 0 THEN 0 + 1 ELSE 0 - 1

\* the row without its element at (0-based) index exclude_col
FilteredRow(row, exclude_col) ==
    [j \in 1..(Len(row) - 1) |->
        IF j <= exclude_col THEN row[j] ELSE row[j + 1]]

\* Matrix::create_laplace_expansion_submatrix
create_laplace_expansion_submatrix(m, exclude_col) ==
    LET rows == shape(m)[1]
        cols == shape(m)[2]
    IN  Matrix([i \in 1..(rows - 1) |-> FilteredRow(m.mat[i + 1], exclude_col)],
               rows - 1, cols - 1)

RECURSIVE laplace_expansion_det_helper(_)
RECURSIVE LaplaceLoop(_, _, _)

\* the loop `for col in 0..cols` of laplace_expansion_det_helper, from col on
LaplaceLoop(m, col, det) ==
    IF col >= shape(m)[2] THEN det
    ELSE LaplaceLoop(m, col + 1,
            det + LaplaceSign(col) * m.mat[1][col + 1]
                  * laplace_expansion_det_helper(
                        create_laplace_expansion_submatrix(m, col)))

\* Matrix::laplace_expansion_det_helper
laplace_expansion_det_helper(m) ==
    LET rows == shape(m)[1]
    IN  IF rows = 1 THEN m.mat[1][1]
        ELSE IF rows = 2
             THEN m.mat[1][1] * m.mat[2][2] - m.mat[1][2] * m.mat[2][1]
             ELSE LaplaceLoop(m, 0, 0)

\* the shape test that opens Matrix::determinant: `rows != cols` is None
DetShapeOkWide(m) == shape(m)[1] <= shape(m)[2]

DetShapeOk(m) == shape(m)[1] = shape(m)[2]

\* Matrix::determinant
determinant(m) ==
    LET rows == shape(m)[1]
    IN  IF ~DetShapeOk(m) THEN None
        ELSE IF rows = 1 THEN Some(m.mat[1][1])
        ELSE IF rows = 2
             THEN Some(m.mat[1][1] * m.mat[2][2] - m.mat[1][2] * m.mat[2][1])
             ELSE Some(laplace_expansion_det_helper(m))

\* cell (j, i), 0-based, of the result of transpose: self.mat[i][j]
TransposeElemUnassigned(m, j, i) == 0

TransposeElem(m, j, i) == m.mat[i + 1][j + 1]

\* the cached fields of the result: `rows: self.cols, cols: self.rows`
TransposeShapeKept(m) == <<m.rows, m.cols>>

TransposeShape(m) == <<m.cols, m.rows>>

\* Matrix::transpose: a cols x rows grid of T::default(), each cell (j, i)
\* then assigned self.mat[i][j]; a read outside the stored rows aborts
transpose(m) ==
    IF \E i \in 1..m.rows : \E j \in 1..m.cols :
          i > Len(m.mat) \/ j > Len(m.mat[i])
    THEN Panic
    ELSE Matrix([j \in 1..m.cols |->
                    [i \in 1..m.rows |-> TransposeElem(m, j - 1, i - 1)]],
                TransposeShape(m)[1], TransposeShape(m)[2])

---------------------------------------------------------------------------
(* The scalar type T of exact arithmetic: the rationals *)

RECURSIVE GCD(_, _)
GCD(x, y) == IF y = 0 THEN x ELSE GCD(y, x % y)

\* n / d (d # 0) in lowest terms with a positive denominator
Rat(n, d) ==
    LET g == GCD(Abs(n), Abs(d))
        sg == IF d < 0 THEN -1 ELSE 1
    IN  <<(sg * n) \div g, (sg * d) \div g>>

\* T::default() and num::One::one()
Zero == <<0, 1>>
One == <<1, 1>>

FromInt(i) == <<i, 1>>

RAdd(x, y) == Rat(x[1] * y[2] + y[1] * x[2], x[2] * y[2])
RSub(x, y) == Rat(x[1] * y[2] - y[1] * x[2], x[2] * y[2])
RMul(x, y) == Rat(x[1] * y[1], x[2] * y[2])
\* x / y for y # Zero
RDiv(x, y) == Rat(x[1] * y[2], x[2] * y[1])
RNeg(x) == <<0 - x[1], x[2]>>
RLess(x, y) == x[1] * y[2] < y[1] * x[2]

---------------------------------------------------------------------------
(* MatrixUtilities: row reduction, src/src/matrix_utilities.rs.  The
   operators below work on the Matrix record and yield Panic as soon as a
   read falls outside the stored rows; `rows` and `cols` are the locals
   copied from the fields when the function starts. *)

\* matrix.mat[i][i] can be read (i is 0-based)
HasDiag(m, i) == i + 1 <= Len(m.mat) /\ i + 1 <= Len(m.mat[i + 1])

\* `if row[c] == -T::default() { row[c] = T::default() }`
FixNegZero(x) == IF x = RNeg(Zero) THEN Zero ELSE x

\* the pivot test `pivot != T::default()`
PivotIsSet(pivot) == pivot # Zero

\* `row[c] = row[c] / pivot` over the columns 0..cols; row_echelon_form
\* (fix) then resets a negative zero
DividedRow(row, pivot, cols, fix) ==
    [c \in 1..Len(row) |->
        IF c > cols THEN row[c]
        ELSE IF fix THEN FixNegZero(RDiv(row[c], pivot))
        ELSE RDiv(row[c], pivot)]

\* the normalisation of row i (0-based) by its diagonal element
Normalized(m, i, cols, fix) ==
    LET pivot == m.mat[i + 1][i + 1]
    IN  IF ~PivotIsSet(pivot) THEN m
        ELSE IF cols > Len(m.mat[i + 1]) THEN Panic
        ELSE [m EXCEPT !.mat[i + 1] = DividedRow(@, pivot, cols, fix)]

\* `row_j[c] = row_j[c] - factor * pivot_row[c]` over the columns 0..cols
ReducedRow(row_j, factor, pivot_row, cols, fix) ==
    [c \in 1..Len(row_j) |->
        IF c > cols THEN row_j[c]
        ELSE IF fix THEN FixNegZero(RSub(row_j[c], RMul(factor, pivot_row[c])))
        ELSE RSub(row_j[c], RMul(factor, pivot_row[c]))]

\* row j (0-based) less mat[j][i] times row i: one turn of an inner loop
Eliminated(m, i, j, cols, fix) ==
    IF j + 1 > Len(m.mat) \/ i + 1 > Len(m.mat[j + 1]) THEN Panic
    ELSE IF cols > Len(m.mat[j + 1]) \/ cols > Len(m.mat[i + 1]) THEN Panic
    ELSE [m EXCEPT !.mat[j + 1] =
             ReducedRow(@, m.mat[j + 1][i + 1], m.mat[i + 1], cols, fix)]

\* the loop `for j in (i + 1)..rows`, from j on
RECURSIVE EliminateBelow(_, _, _, _, _, _)
EliminateBelow(m, i, j, rows, cols, fix) ==
    IF ~IsMatrix(m) \/ j >= rows THEN m
    ELSE EliminateBelow(Eliminated(m, i, j, cols, fix), i, j + 1, rows, cols, fix)

\* the forward pass `for i in 0..rows`, from i on
RECURSIVE ForwardPass(_, _, _, _, _)
ForwardPass(m, i, rows, cols, fix) ==
    IF ~IsMatrix(m) \/ i >= rows THEN m
    ELSE IF ~HasDiag(m, i) THEN Panic
    ELSE LET n == Normalized(m, i, cols, fix)
         IN  IF ~IsMatrix(n) THEN Panic
             ELSE ForwardPass(EliminateBelow(n, i, i + 1, rows, cols, fix),
                              i + 1, rows, cols, fix)

\* MatrixUtilities::row_echelon_form
row_echelon_form(matrix) ==
    ForwardPass(matrix, 0, matrix.rows, matrix.cols, TRUE)

\* the loop `for j in (0..i).rev()`, from j down
RECURSIVE EliminateAbove(_, _, _, _)
EliminateAbove(m, i, j, cols) ==
    IF ~IsMatrix(m) \/ j < 0 THEN m
    ELSE EliminateAbove(Eliminated(m, i, j, cols, FALSE), i, j - 1, cols)

\* the backward pass `for i in (0..rows).rev()`, from i down
RECURSIVE BackwardPass(_, _, _)
BackwardPass(m, i, cols) ==
    IF ~IsMatrix(m) \/ i < 0 THEN m
    ELSE BackwardPass(EliminateAbove(m, i, i - 1, cols), i - 1, cols)

\* MatrixUtilities::rref
rref(matrix) ==
    BackwardPass(ForwardPass(matrix, 0, matrix.rows, matrix.cols, FALSE),
                 matrix.rows - 1, matrix.cols)

\* the variable letter of row i: ('a' as u8 + i as u8) as char
Letters == <<"a", "b", "c", "d", "e", "f", "g", "h">>
Letter(i) == Letters[i + 1]

NoSolution == "No solution exists for the given matrix."
InfinitelyMany == "Infinitely many solutions exist for the given matrix."

\* the rows 0..rows of the reduced matrix red whose pivot is not zero
PivotRows(red) == {i \in 0..(red.rows - 1) : red.mat[i + 1][i + 1] # Zero}

\* the first loop `for i in 0..matrix.rows`, from row i on: it reads
\* mat[i][cols - 1] in every row (which aborts outside the row) and returns
\* Err at a row whose pivot is zero and whose last element is not
RECURSIVE PivotLoop(_, _)
PivotLoop(red, i) ==
    IF i >= red.rows THEN None
    ELSE IF red.cols = 0 \/ red.cols > Len(red.mat[i + 1]) THEN Panic
    ELSE IF red.mat[i + 1][i + 1] = Zero /\ red.mat[i + 1][red.cols] # Zero
         THEN Err(NoSolution)
         ELSE PivotLoop(red, i + 1)

\* `matrix.mat[i].iter().all(|&x| x == T::default())` for some row i
HasZeroRow(red) ==
    \E i \in 0..(red.rows - 1) :
        \A c \in 1..Len(red.mat[i + 1]) : red.mat[i + 1][c] = Zero

\* the HashMap the first loop fills: letter of row i -> mat[i][cols - 1]
PivotVars(red) ==
    [l \in {Letter(i) : i \in PivotRows(red)} |->
        LET i == CHOOSE k \in PivotRows(red) : Letter(k) = l
        IN  red.mat[i + 1][red.cols]]

\* MatrixUtilities::gaussian_elimination
gaussian_elimination(matrix) ==
    LET red == rref(matrix)
    IN  IF ~IsMatrix(red) THEN Panic
        ELSE IF PivotLoop(red, 0) # None THEN PivotLoop(red, 0)
        ELSE IF HasZeroRow(red) THEN Err(InfinitelyMany)
        ELSE Ok(PivotVars(red))

---------------------------------------------------------------------------
(* System: src/src/system.rs.  A System is its coefficients (a Matrix) and
   its constants (a Vec); the field `variables` is never read.  T is the
   exact arithmetic above, in which a division by zero aborts. *)

ShapeMismatch == "The number of rows in this coefficient matrix must equal the number of rows in the constants matrix, and the constants matrix must have exactly one column"

\* the guard that opens System::gaussian_elimination
SystemShapeRejected(coefficients, n) ==
    n # coefficients.rows \/ coefficients.cols # 1

\* the loop `for i in 0..n` that appends constants[i] to row i, from i on
RECURSIVE Augmented(_, _, _, _)
Augmented(aug, constants, i, n) ==
    IF i >= n THEN [aug EXCEPT !.cols = @ + 1]
    ELSE IF i + 1 > Len(aug.mat) \/ i + 1 > Len(constants) THEN Panic
    ELSE Augmented([aug EXCEPT !.mat[i + 1] = Append(@, constants[i + 1])],
                   constants, i + 1, n)

\* the loop `for k in (i + 1)..n` that looks for the row to swap into
\* place i, from k on: the index found, or -1 when a read aborts
RECURSIVE MaxRow(_, _, _, _, _)
MaxRow(aug, i, k, n, max_row) ==
    IF k >= n THEN max_row
    ELSE IF i + 1 > Len(aug.mat[k + 1]) \/ i + 1 > Len(aug.mat[max_row + 1])
         THEN -1
    ELSE IF RLess(aug.mat[max_row + 1][i + 1], aug.mat[k + 1][i + 1])
         THEN MaxRow(aug, i, k + 1, n, k)
         ELSE MaxRow(aug, i, k + 1, n, max_row)

\* augmented.mat.swap(i, max_row)
Swapped(aug, i, max_row) ==
    [aug EXCEPT !.mat = [@ EXCEPT ![i + 1] = aug.mat[max_row + 1],
                                  ![max_row + 1] = aug.mat[i + 1]]]

\* the loop `for k in (i + 1)..n` that subtracts factor times row i from
\* row k over the columns i..augmented.cols, from k on
RECURSIVE SystemEliminate(_, _, _, _)
SystemEliminate(aug, i, k, n) ==
    IF ~IsMatrix(aug) \/ k >= n THEN aug
    ELSE IF i + 1 > Len(aug.mat[k + 1]) \/ i + 1 > Len(aug.mat[i + 1]) THEN Panic
    ELSE IF aug.mat[i + 1][i + 1] = Zero THEN Panic
    ELSE IF aug.cols > Len(aug.mat[k + 1]) \/ aug.cols > Len(aug.mat[i + 1])
         THEN Panic
    ELSE LET factor == RDiv(aug.mat[k + 1][i + 1], aug.mat[i + 1][i + 1])
         IN  SystemEliminate(
                [aug EXCEPT !.mat[k + 1] =
                    [j \in 1..Len(@) |->
                        IF j >= i + 1 /\ j <= aug.cols
                        THEN RSub(@[j], RMul(factor, aug.mat[i + 1][j]))
                        ELSE @[j]]],
                i, k + 1, n)

\* the elimination `for i in 0..n`, from i on
RECURSIVE SystemForward(_, _, _)
SystemForward(aug, i, n) ==
    IF ~IsMatrix(aug) \/ i >= n THEN aug
    ELSE LET max_row == MaxRow(aug, i, i + 1, n, i)
         IN  IF max_row < 0 THEN Panic
             ELSE SystemForward(
                     SystemEliminate(Swapped(aug, i, max_row), i, i + 1, n),
                     i + 1, n)

\* `sum -= augmented.mat[i][j] * solution[j]` for j in (i + 1)..n, from j on
RECURSIVE BackSum(_, _, _, _, _, _)
BackSum(aug, solution, i, j, n, sum) ==
    IF j >= n THEN sum
    ELSE BackSum(aug, solution, i, j + 1, n,
                 RSub(sum, RMul(aug.mat[i + 1][j + 1], solution[j + 1])))

\* the back-substitution `for i in (0..n).rev()`, from i down; each row is
\* read at the columns i..=n
RECURSIVE BackSubstitution(_, _, _, _)
BackSubstitution(aug, solution, i, n) ==
    IF i < 0 THEN Ok(solution)
    ELSE IF n + 1 > Len(aug.mat[i + 1]) THEN Panic
    ELSE IF aug.mat[i + 1][i + 1] = Zero THEN Panic
    ELSE BackSubstitution(aug,
            [solution EXCEPT ![i + 1] =
                RDiv(BackSum(aug, solution, i, i + 1, n, aug.mat[i + 1][n + 1]),
                     aug.mat[i + 1][i + 1])],
            i - 1, n)

\* System::gaussian_elimination
System_gaussian_elimination(coefficients, constants) ==
    LET n == coefficients.rows
    IN  IF SystemShapeRejected(coefficients, n) THEN Err(ShapeMismatch)
        ELSE LET aug == SystemForward(Augmented(coefficients, constants, 0, n), 0, n)
             IN  IF ~IsMatrix(aug) THEN Panic
                 ELSE BackSubstitution(aug, [i \in 1..n |-> Zero], n - 1, n)

---------------------------------------------------------------------------
(* Inputs: the matrices a caller builds *)

\* rows of the literal matrices of the determinant tests, by width
DetFixtureRows(c) ==
    CASE c = 1 -> {<<1>>}
      [] c = 2 -> {<<1, 2>>, <<3, 4>>}
      [] c = 3 -> {<<1, 2, 3>>, <<0, 1, 4>>, <<5, 6, 0>>, <<4, 5, 6>>}
      [] c = 4 -> {<<1, 0, 2, -1>>, <<3, 0, 0, 5>>, <<2, 1, 4, -3>>,
                   <<1, 0, 5, 0>>}
      [] OTHER -> {}

\* rows of width c with at most one entry that is not zero
SparseRows(c) ==
    {[j \in 1..c |-> 0]} \cup
    {[j \in 1..c |-> IF j = k THEN v ELSE 0] : k \in 1..c, v \in Vals \ {0}}

\* the rows an r x c matrix is built from: every row over Vals when the
\* shape is small, else the sparse rows and the rows `fixtures`
RowsFor(r, c, fixtures) ==
    IF r * c <= FullCells THEN [1..c -> Vals] \cup fixtures
    ELSE SparseRows(c) \cup fixtures

\* the largest matrix of the determinant tests is 4 x 4
MaxDetDim == 4

---------------------------------------------------------------------------
(* Specification SpecDet: determinant() on a matrix the caller built, the
   empty one or an r x c one, square or not *)

InitDet ==
    /\ \/ self = Default
       \/ \E r \in 1..MaxDetDim : \E c \in 0..MaxDetDim :
             \E rs \in [1..r -> RowsFor(r, c, DetFixtureRows(c))] :
                self = Matrix(rs, r, c)
    /\ arg = NoArg
    /\ calls = <<>>
    /\ rets = <<>>

\* let result = matrix.determinant();
Determinant ==
    /\ calls = <<>>
    /\ calls' = <<"determinant">>
    /\ rets' = <<determinant(self)>>
    /\ self' = Reshaped(self)
    /\ UNCHANGED arg

NextDet == Determinant

SpecDet == InitDet /\ [][NextDet]_vars

---------------------------------------------------------------------------
(* The determinant of the textbook, independent of the code above *)

RECURSIVE SetToSeq(_)
SetToSeq(S) ==
    IF S = {} THEN <<>>
    ELSE LET x == CHOOSE y \in S : TRUE IN <<x>> \o SetToSeq(S \ {x})

\* PermSeq[n]: the permutations of 1..n, listed
PermSeq == [n \in 1..MaxDetDim |-> SetToSeq(Permutations(1..n))]

Inversions(p, n) ==
    Cardinality({ij \in (1..n) \X (1..n) : ij[1] < ij[2] /\ p[ij[1]] > p[ij[2]]})

PermSign(p, n) == IF Inversions(p, n) % 2 = 0 THEN 1 ELSE -1

\* PermSignSeq[n][k]: the sign of the permutation PermSeq[n][k]
PermSignSeq ==
    [n \in 1..MaxDetDim |->
        [k \in 1..Len(PermSeq[n]) |-> PermSign(PermSeq[n][k], n)]]

RECURSIVE PermProduct(_, _, _)
PermProduct(mat, p, i) ==
    IF i = 0 THEN 1 ELSE mat[i][p[i]] * PermProduct(mat, p, i - 1)

RECURSIVE LeibnizSum(_, _, _)
LeibnizSum(mat, n, k) ==
    IF k = 0 THEN 0
    ELSE PermSignSeq[n][k] * PermProduct(mat, PermSeq[n][k], n)
         + LeibnizSum(mat, n, k - 1)

\* the Leibniz formula for the n x n grid mat
LeibnizDet(mat, n) == LeibnizSum(mat, n, Len(PermSeq[n]))

\* the grid mat without its first row and its (1-based) column c
Minor(mat, n, c) ==
    [i \in 1..(n - 1) |->
        [j \in 1..(n - 1) |-> mat[i + 1][IF j < c THEN j ELSE j + 1]]]

RECURSIVE CofactorSum(_, _, _)
CofactorSum(mat, n, c) ==
    IF c = 0 THEN 0
    ELSE (IF (c - 1) % 2 = 0 THEN 1 ELSE -1) * mat[1][c]
            * LeibnizDet(Minor(mat, n, c), n - 1)
         + CofactorSum(mat, n, c - 1)

\* a stored rectangle: rows rows of cols elements each
WellFormed(m) ==
    /\ Len(m.mat) = m.rows
    /\ \A i \in 1..m.rows : Len(m.mat[i]) = m.cols

IsSquare(m, n) == WellFormed(m) /\ m.rows = n /\ m.cols = n

(* C1: for every square integer matrix of size 1x1 up to 4x4, determinant()
   returns the exact determinant (the Leibniz formula): the sole element for
   1x1, a[0][0]*a[1][1] - a[0][1]*a[1][0] for 2x2, and for n >= 3 the
   first-row cofactor expansion, the sum over c of
   (+1 if c even else -1) * a[0][c] * det(minor of row 0 and column c). *)
C1_DeterminantExact ==
    \A n \in 1..MaxDetDim :
        (calls = <<"determinant">> /\ IsSquare(self, n)) =>
            /\ rets[1] = Some(LeibnizDet(self.mat, n))
            /\ n = 1 => rets[1] = Some(self.mat[1][1])
            /\ n = 2 => rets[1] = Some(self.mat[1][1] * self.mat[2][2]
                                        - self.mat[1][2] * self.mat[2][1])
            /\ n >= 3 => rets[1] = Some(CofactorSum(self.mat, n, n))

\* determinant() has returned for the 4 x 4 matrix of test_determinant_4x4,
\* whose determinant is 30, and the cofactors of odd columns count
C1_Witness ==
    /\ calls = <<"determinant">>
    /\ self.mat = <<<<1, 0, 2, -1>>, <<3, 0, 0, 5>>, <<2, 1, 4, -3>>, <<1, 0, 5, 0>>>>
    /\ rets[1] = Some(30)

(* C2: for every matrix whose number of rows differs from its number of
   columns, determinant() signals failure (returns None) and never returns a
   value. *)
C2_NonSquareIsNone ==
    (calls = <<"determinant">> /\ WellFormed(self) /\ self.rows # self.cols)
        => rets[1] = None

\* determinant() has returned None for the 2 x 3 matrix of
\* test_non_square_matrix
C2_Witness ==
    /\ calls = <<"determinant">>
    /\ self.mat = <<<<1, 2, 3>>, <<4, 5, 6>>>>
    /\ rets[1] = None

---------------------------------------------------------------------------
(* Specification SpecTranspose: transpose() on a matrix the caller built,
   and again on each result *)

\* the matrices transposed have at most MaxTransposeDim rows and columns
MaxTransposeDim == 3

\* rows of the literal matrix of test_transpose
TransposeFixtureRows(c) == IF c = 3 THEN {<<1, 2, 3>>, <<4, 5, 6>>} ELSE {}

\* the matrix call number k is applied to
Input(k) == IF k = 1 THEN self ELSE rets[k - 1]

\* the matrix the next call is applied to
Cur == Input(Len(calls) + 1)

InitTranspose ==
    /\ \/ self = Default
       \/ \E r \in 1..MaxTransposeDim : \E c \in 0..MaxTransposeDim :
             \E rs \in [1..r -> RowsFor(r, c, TransposeFixtureRows(c))] :
                self = Matrix(rs, r, c)
    /\ arg = NoArg
    /\ calls = <<>>
    /\ rets = <<>>

\* let transposed = mat.transpose();
Transpose ==
    /\ Len(calls) < MaxCalls
    /\ IsMatrix(Cur)
    /\ calls' = Append(calls, "transpose")
    /\ rets' = Append(rets, transpose(Cur))
    /\ UNCHANGED <<self, arg>>

NextTranspose == Transpose

SpecTranspose == InitTranspose /\ [][NextTranspose]_vars

(* C9: for every matrix with cached shape (rows, cols), transpose() returns a
   new matrix of shape (cols, rows) with result[j][i] = self[i][j] for all
   0 <= i < rows and 0 <= j < cols.  The matrices are stored rectangles
   (section 4.1 of the specification leaves transpose undefined on any other
   storage), those with no row or no column included. *)
C9_TransposeSwaps ==
    \A k \in 1..Len(calls) :
        (calls[k] = "transpose" /\ Input(k).rows = Len(Input(k).mat)) =>
            /\ IsMatrix(rets[k])
            /\ rets[k].rows = Input(k).cols
            /\ rets[k].cols = Input(k).rows
            /\ Len(rets[k].mat) = Input(k).cols
            /\ \A j \in 1..Input(k).cols :
                  /\ Len(rets[k].mat[j]) = Input(k).rows
                  /\ \A i \in 1..Input(k).rows :
                        rets[k].mat[j][i] = Input(k).mat[i][j]

\* transpose() has returned for the 2 x 3 matrix of test_transpose
C9_Witness ==
    /\ Len(calls) >= 1
    /\ calls[1] = "transpose"
    /\ self = Matrix(<<<<1, 2, 3>>, <<4, 5, 6>>>>, 2, 3)
    /\ rets[1] = Matrix(<<<<1, 4>>, <<2, 5>>, <<3, 6>>>>, 3, 2)

(* C10: transpose is an involution: for every matrix A (matrices with zero
   rows or zero columns included), transpose(transpose(A)) has the same rows,
   the same elements and the same rows/cols fields as A. *)
C10_TransposeInvolution ==
    \A k \in 1..Len(calls) :
        (k >= 2 /\ calls[k - 1] = "transpose" /\ calls[k] = "transpose") =>
            /\ IsMatrix(rets[k])
            /\ rets[k].mat = Input(k - 1).mat
            /\ rets[k].rows = Input(k - 1).rows
            /\ rets[k].cols = Input(k - 1).cols

\* a matrix A of two empty rows (zero columns) and its transpose, of zero
\* rows and two columns, have both been transposed twice
C10_Witness ==
    /\ Len(calls) = 3
    /\ self = Matrix(<<<<>>, <<>>>>, 2, 0)
    /\ rets[1] = Matrix(<<>>, 0, 2)
    /\ rets[2] = self
    /\ rets[3] = rets[1]

---------------------------------------------------------------------------
(* Specification SpecReduce: row_echelon_form, rref and gaussian_elimination
   on a matrix with rows <= cols that the caller built over the rationals *)

\* rows of the literal matrices of the row-reduction tests, by width
ReduceFixtureRows(c) ==
    CASE c = 3 -> {<<1, 2, -1>>, <<0, 1, -3>>, <<2, 3, 1>>, <<3, 5, 0>>}
      [] c = 4 -> {<<2, 1, -1, 8>>, <<-3, -1, 2, -11>>, <<-2, 1, 2, -3>>,
                   <<2, 1, -1, 7>>, <<1, -1, 2, 0>>}
      [] OTHER -> {}

\* the matrices reduced have at most MaxReduceRows rows
MaxReduceRows == 3

\* the integer grid rs as a grid of T
Lifted(rs) == [i \in 1..Len(rs) |-> [j \in 1..Len(rs[i]) |-> FromInt(rs[i][j])]]

\* the integer grid a grid of T with integer values came from
Unlifted(mat) == [i \in 1..Len(mat) |-> [j \in 1..Len(mat[i]) |-> mat[i][j][1]]]

InitReduce ==
    /\ \E r \in 1..MaxReduceRows : \E c \in r..(r + 1) :
          \E rs \in [1..r -> RowsFor(r, c, ReduceFixtureRows(c))] :
             self = Matrix(Lifted(rs), r, c)
    /\ arg = NoArg
    /\ calls = <<>>
    /\ rets = <<>>

\* let result = MatrixUtilities::row_echelon_form(matrix);
RowEchelonForm ==
    /\ calls = <<>>
    /\ calls' = <<"row_echelon_form">>
    /\ rets' = <<row_echelon_form(self)>>
    /\ UNCHANGED <<self, arg>>

\* let result = MatrixUtilities::rref(mat); and again on a result of rref
Rref ==
    /\ Len(calls) < MaxCalls
    /\ \A k \in 1..Len(calls) : calls[k] = "rref"
    /\ IsMatrix(Cur)
    /\ calls' = Append(calls, "rref")
    /\ rets' = Append(rets, rref(Cur))
    /\ UNCHANGED <<self, arg>>

\* let result = MatrixUtilities::gaussian_elimination(matrix);
GaussianElimination ==
    /\ calls = <<>>
    /\ calls' = <<"gaussian_elimination">>
    /\ rets' = <<gaussian_elimination(self)>>
    /\ UNCHANGED <<self, arg>>

NextReduce == RowEchelonForm \/ Rref \/ GaussianElimination

SpecReduce == InitReduce /\ [][NextReduce]_vars

---------------------------------------------------------------------------
(* Linear algebra of the textbook, independent of the code above *)

\* the subsets of S with k elements
KSubsets(S, k) == {X \in SUBSET S : Cardinality(X) = k}

\* the square grid of the rows R and the columns C of the integer grid g
SubGrid(g, R, C) ==
    LET rs == SetToSeq(R)
        cs == SetToSeq(C)
    IN  [i \in 1..Len(rs) |-> [j \in 1..Len(cs) |-> g[rs[i]][cs[j]]]]

\* the rank of the columns 1..c of the integer grid g of r rows: the size
\* of its largest square sub-grid whose determinant is not zero
Rank(g, r, c) ==
    LET sizes == {k \in 1..Min(r, c) :
                    \E R \in KSubsets(1..r, k) : \E C \in KSubsets(1..c, k) :
                        LeibnizDet(SubGrid(g, R, C), k) # 0}
    IN  IF sizes = {} THEN 0 ELSE CHOOSE k \in sizes : \A l \in sizes : l <= k

\* self is an augmented matrix [A|b] of n equations in n unknowns
IsAugmented(m) == WellFormed(m) /\ m.rows >= 1 /\ m.cols = m.rows + 1

\* the system [A|b] of the augmented matrix m has no solution
NoSolutionExists(m) ==
    Rank(Unlifted(m.mat), m.rows, m.cols - 1) < Rank(Unlifted(m.mat), m.rows, m.cols)

\* the system has more than one solution
ManySolutionsExist(m) ==
    /\ ~NoSolutionExists(m)
    /\ Rank(Unlifted(m.mat), m.rows, m.cols - 1) < m.cols - 1

RECURSIVE RowTimes(_, _, _)
\* row[1]*x[1] + ... + row[n]*x[n] over T
RowTimes(row, x, n) ==
    IF n = 0 THEN Zero ELSE RAdd(RowTimes(row, x, n - 1), RMul(row[n], x[n]))

\* x, one value of T per unknown, solves the system of m
Solves(m, x) ==
    \A i \in 1..m.rows : RowTimes(m.mat[i], x, m.cols - 1) = m.mat[i][m.cols]

(* C3: whenever gaussian_elimination (Gauss-Jordan) returns Ok for an
   n x (n+1) augmented matrix [A|b] over exact arithmetic, the returned map
   binds the letter 'a'+i to a value x_i for every row i, and these values
   solve the original system: A*x = b. *)
C3_OkIsTheSolution ==
    (calls = <<"gaussian_elimination">> /\ IsAugmented(self) /\ IsOk(rets[1])) =>
        /\ DOMAIN rets[1].val = {Letter(i) : i \in 0..(self.rows - 1)}
        /\ Solves(self, [j \in 1..self.rows |-> rets[1].val[Letter(j - 1)]])

(* C4: gaussian_elimination on an augmented matrix fails with the error
   "No solution exists for the given matrix." exactly when the linear system
   it describes is inconsistent (has no solution); it never reports 'no
   solution' for a system that has at least one solution. *)
C4_NoSolutionIffInconsistent ==
    (calls = <<"gaussian_elimination">> /\ IsAugmented(self)) =>
        (rets[1] = Err(NoSolution) <=> NoSolutionExists(self))

(* C5: gaussian_elimination fails with the error "Infinitely many solutions
   exist for the given matrix." whenever the augmented system is
   under-determined (consistent with more than one solution), including when
   the reduced matrix contains an all-zero row and no inconsistent row. *)
C5_ManySolutionsReported ==
    (calls = <<"gaussian_elimination">> /\ IsAugmented(self)
        /\ ManySolutionsExist(self)) => rets[1] = Err(InfinitelyMany)

\* every diagonal entry of the grid is 0 or 1
DiagonalIsZeroOrOne(mat, rows) ==
    \A i \in 1..rows : mat[i][i] \in {Zero, One}

(* C6: for every matrix with rows <= cols over exact arithmetic, rref returns
   a matrix in reduced row-echelon form: every diagonal entry is 0 or 1, and
   every column i whose diagonal entry is 1 is zero in all other rows (above
   and below); in particular
   rref([[1,2,-1],[0,1,-3],[0,0,0]]) = [[1,0,5],[0,1,-3],[0,0,0]]. *)
C6_RrefIsReduced ==
    (Len(calls) >= 1 /\ calls[1] = "rref" /\ WellFormed(self)
        /\ self.rows <= self.cols) =>
        /\ IsMatrix(rets[1])
        /\ DiagonalIsZeroOrOne(rets[1].mat, self.rows)
        /\ \A i \in 1..self.rows :
              rets[1].mat[i][i] = One =>
                  \A j \in (1..self.rows) \ {i} : rets[1].mat[j][i] = Zero
        /\ self.mat = Lifted(<<<<1, 2, -1>>, <<0, 1, -3>>, <<0, 0, 0>>>>) =>
              rets[1].mat = Lifted(<<<<1, 0, 5>>, <<0, 1, -3>>, <<0, 0, 0>>>>)

(* C7: for every matrix with rows <= cols over exact arithmetic,
   row_echelon_form returns the matrix in row echelon form: every entry below
   the main diagonal is zero and every diagonal entry is 0 or 1 (each nonzero
   pivot is normalized to 1 and the entries of its column in all rows below
   are eliminated). *)
C7_RefIsEchelon ==
    (calls = <<"row_echelon_form">> /\ WellFormed(self)
        /\ self.rows <= self.cols) =>
        /\ IsMatrix(rets[1])
        /\ DiagonalIsZeroOrOne(rets[1].mat, self.rows)
        /\ \A i \in 1..self.rows : \A j \in 1..(i - 1) : rets[1].mat[i][j] = Zero

---------------------------------------------------------------------------
(* Specification SpecSystem: System::gaussian_elimination on a System whose
   coefficients (self) are n x n or n x 1 and whose constants (arg) are n
   values *)

\* the systems solved have at most MaxSystemDim equations
MaxSystemDim == 3

\* the coefficient rows and the constants of 2x+y-z=8, -3x-y+2z=-11,
\* -2x+y+2z=-3
SystemFixtureRows(c) ==
    IF c = 3 THEN {<<2, 1, -1>>, <<-3, -1, 2>>, <<-2, 1, 2>>} ELSE {}

SystemFixtureConstants(n) == IF n = 3 THEN {<<8, -11, -3>>} ELSE {}

Constants(cs) == [constants |-> cs]

InitSystem ==
    /\ \E n \in 1..MaxSystemDim : \E c \in {1, n} :
          /\ \E rs \in [1..n -> RowsFor(n, c, SystemFixtureRows(c))] :
                self = Matrix(Lifted(rs), n, c)
          /\ \E cs \in [1..n -> Vals] \cup SystemFixtureConstants(n) :
                arg = Constants([i \in 1..n |-> FromInt(cs[i])])
    /\ calls = <<>>
    /\ rets = <<>>

\* let result = System::gaussian_elimination(&mut system);
SystemGaussianElimination ==
    /\ calls = <<>>
    /\ calls' = <<"System::gaussian_elimination">>
    /\ rets' = <<System_gaussian_elimination(self, arg.constants)>>
    /\ UNCHANGED <<self, arg>>

NextSystem == SystemGaussianElimination

SpecSystem == InitSystem /\ [][NextSystem]_vars

\* the augmented matrix [A|b] of the system
AugmentedSystem(coefficients, constants) ==
    Matrix([i \in 1..coefficients.rows |-> Append(coefficients.mat[i], constants[i])],
           coefficients.rows, coefficients.cols + 1)

(* C8: for every n x n nonsingular coefficient matrix A (n >= 1) and
   constants vector b of length n, the linear system solver
   (System::gaussian_elimination) returns Ok(x) with A*x = b in original
   variable order; in particular solving 2x+y-z=8, -3x-y+2z=-11,
   -2x+y+2z=-3 yields (2, 3, -1). *)
C8_SolverSolves ==
    (calls = <<"System::gaussian_elimination">> /\ WellFormed(self)
        /\ self.rows = self.cols /\ Len(arg.constants) = self.rows
        /\ LeibnizDet(Unlifted(self.mat), self.rows) # 0) =>
        /\ IsOk(rets[1])
        /\ Solves(AugmentedSystem(self, arg.constants), rets[1].val)
        /\ (self.mat = Lifted(<<<<2, 1, -1>>, <<-3, -1, 2>>, <<-2, 1, 2>>>>)
              /\ arg.constants = <<FromInt(8), FromInt(-11), FromInt(-3)>>) =>
                rets[1].val = <<FromInt(2), FromInt(3), FromInt(-1)>>

---------------------------------------------------------------------------
(* MatrixUtilities: arithmetic, src/src/matrix_utilities.rs.  T is a signed
   integer type (i64 in the tests) with entries far from the overflow range.
   An operand is passed by value: what the callee writes to its fields is
   not seen by the caller. *)

ShapesUnequal == "Cannot add the two matrices because \n                their shapes are unequal!"

\* a.mat[r][c] and b.mat[r][c] can be read for r in 0..rows, c in 0..cols
CellsStored(a, b, rows, cols) ==
    \A r \in 1..rows :
        /\ r <= Len(a.mat) /\ r <= Len(b.mat)
        /\ cols > 0 => (cols <= Len(a.mat[r]) /\ cols <= Len(b.mat[r]))

\* `new_row.push(a.mat[r][c] + b.mat[r][c])`
AddElem(x, y) == x + y

\* `new_row.push(a.mat[r][c] - b.mat[r][c])`
SubtractElemAsAdd(x, y) == x + y

SubtractElem(x, y) == x - y

\* MatrixUtilities::add: both shapes are recomputed from storage, and the
\* loops run over the refreshed fields of a
add(a, b) ==
    IF shape(a) # shape(b) THEN Err(ShapesUnequal)
    ELSE LET rows == shape(a)[1]
             cols == shape(a)[2]
         IN  IF ~CellsStored(a, b, rows, cols) THEN Panic
             ELSE Ok(Matrix([r \in 1..rows |->
                                [c \in 1..cols |-> AddElem(a.mat[r][c], b.mat[r][c])]],
                            rows, cols))

\* MatrixUtilities::subtract
subtract(a, b) ==
    IF shape(a) # shape(b) THEN Err(ShapesUnequal)
    ELSE LET rows == shape(a)[1]
             cols == shape(a)[2]
         IN  IF ~CellsStored(a, b, rows, cols) THEN Panic
             ELSE Ok(Matrix([r \in 1..rows |->
                                [c \in 1..cols |-> SubtractElem(a.mat[r][c], b.mat[r][c])]],
                            rows, cols))

InnerMismatch == "The columns of matrix a do not \n                equal the rows of matrix b!"

\* the number of terms of one entry of the product: `for k in 0..a.cols`
InnerDimShort(a) == a.cols - 1

InnerDim(a) == a.cols

\* the term `a.mat[r][k] * b.mat[k][c]` of one entry of the product
ProductTermAdd(x, y) == x + y

ProductTerm(x, y) == x * y

\* `sum += a.mat[r][k] * b.mat[k][c]` for the first k values of k, on a sum
\* that starts at T::default(); r and c are 1-based
RECURSIVE ProductSum(_, _, _, _, _)
ProductSum(a, b, r, c, k) ==
    IF k <= 0 THEN 0
    ELSE ProductSum(a, b, r, c, k - 1) + ProductTerm(a.mat[r][k], b.mat[k][c])

\* every a.mat[r][k] and b.mat[k][c] that multiply reads is stored
ProductCellsStored(a, b) ==
    (a.rows > 0 /\ b.cols > 0 /\ a.cols > 0) =>
        /\ a.rows <= Len(a.mat)
        /\ \A r \in 1..a.rows : a.cols <= Len(a.mat[r])
        /\ a.cols <= Len(b.mat)
        /\ \A k \in 1..a.cols : b.cols <= Len(b.mat[k])

\* MatrixUtilities::multiply: the fields are read as cached; the shape of
\* the result is taken from new_mat, and new_mat[0] aborts when it is empty
multiply(a, b) ==
    IF a.cols # b.rows THEN Err(InnerMismatch)
    ELSE IF ~ProductCellsStored(a, b) THEN Panic
    ELSE LET new_mat == [r \in 1..a.rows |->
                            [c \in 1..b.cols |-> ProductSum(a, b, r, c, InnerDim(a))]]
         IN  IF Len(new_mat) = 0 THEN Panic
             ELSE Ok(Matrix(new_mat, Len(new_mat), Len(new_mat[1])))

DotMismatch == "Cannot get the dot product: The number of columns in A must match the number of rows in B."
DotNotVectors == "Dot product is only valid for a \n                row vector and a column vector."

\* the test `a.rows == 1 && b.cols == 1` of dot
DotIsVectorsEither(a, b) == a.rows = 1 \/ b.cols = 1

DotIsVectors(a, b) == a.rows = 1 /\ b.cols = 1

\* `sum += a.mat[0][i] * b.mat[i][0]` for the first k values of i
RECURSIVE DotSum(_, _, _)
DotSum(a, b, k) ==
    IF k <= 0 THEN 0
    ELSE DotSum(a, b, k - 1) + a.mat[1][k] * b.mat[k][1]

\* MatrixUtilities::dot
dot(a, b) ==
    IF a.cols # b.rows THEN Err(DotMismatch)
    ELSE IF ~DotIsVectors(a, b) THEN Err(DotNotVectors)
    ELSE IF a.cols > 0 /\ (Len(a.mat) = 0 \/ a.cols > Len(a.mat[1])
                           \/ a.cols > Len(b.mat)
                           \/ \E i \in 1..Min(a.cols, Len(b.mat)) : Len(b.mat[i]) = 0)
         THEN Panic
    ELSE Ok(DotSum(a, b, a.cols))

---------------------------------------------------------------------------
(* Specification SpecArith: one call of add, subtract, multiply or dot on
   two matrices a (self) and b (arg.b) the caller built, of any two shapes
   with at most MaxArithDim rows and columns, or taken from the tests *)

MaxArithDim == 2

\* an operand with at most ArithCells cells is enumerated entry by entry; a
\* larger one is built from rows of one repeated value
ArithCells == 4

\* the rows of width c that repeat one value of vals
ConstRows(c, vals) == {[j \in 1..c |-> v] : v \in vals}

\* the rows an r x c operand is built from
ArithRows(r, c, vals) ==
    IF r * c <= ArithCells THEN [1..c -> vals] ELSE ConstRows(c, vals)

\* the second operand of a call
Operand(b) == [b |-> b]

\* the pairs of operands of test_add_matrix, test_subtract_matrix and
\* test_add_matrix_different_shape
AddFixtures ==
    {<<Matrix(<<<<1, 2, 3>>, <<4, 5, 6>>>>, 2, 3),
       Matrix(<<<<1, 2, 3>>, <<4, 5, 6>>>>, 2, 3)>>,
     <<Matrix(<<<<1, 2, 3>>, <<4, 5, 6>>>>, 2, 3),
       Matrix(<<<<1, 2>>, <<3, 4>>>>, 2, 2)>>}

\* the pairs of operands of test_multiply_matrix and
\* test_multiply_matrix_error
MultiplyFixtures ==
    {<<Matrix(<<<<1, 4, -2>>, <<3, 5, -6>>>>, 2, 3),
       Matrix(<<<<5, 2, 8, -1>>, <<3, 6, 4, 5>>, <<-2, 9, 7, -3>>>>, 3, 4)>>,
     <<Matrix(<<<<1, 4>>, <<3, 5>>>>, 2, 2),
       Matrix(<<<<5, 2>>, <<3, 6>>, <<3, 4>>>>, 3, 2)>>}

\* the pairs of operands of test_dot_product and test_dot_product_error
DotFixtures ==
    {<<Matrix(<<<<1, 2, 3>>>>, 1, 3),
       Matrix(<<<<1>>, <<2>>, <<3>>>>, 3, 1)>>,
     <<Matrix(<<<<1, 2, 3>>, <<4, 5, 6>>>>, 2, 3),
       Matrix(<<<<1>>, <<2>>, <<3>>>>, 3, 1)>>}

ArithFixtures == AddFixtures \cup MultiplyFixtures \cup DotFixtures

InitArith ==
    /\ \/ \E r \in 0..MaxArithDim : \E c \in 0..MaxArithDim :
          \E rs \in [1..r -> ArithRows(r, c, Vals)] :
          \E br \in 0..MaxArithDim : \E bc \in 0..MaxArithDim :
          \E bs \in [1..br -> ArithRows(br, bc, Vals)] :
             /\ self = Matrix(rs, r, c)
             /\ arg = Operand(Matrix(bs, br, bc))
       \/ \E f \in ArithFixtures :
             /\ self = f[1]
             /\ arg = Operand(f[2])
    /\ calls = <<>>
    /\ rets = <<>>

\* let result = MatrixUtilities::add(a, b);
Add ==
    /\ calls = <<>>
    /\ calls' = <<"add">>
    /\ rets' = <<add(self, arg.b)>>
    /\ UNCHANGED <<self, arg>>

\* let result = MatrixUtilities::subtract(a, b);
Subtract ==
    /\ calls = <<>>
    /\ calls' = <<"subtract">>
    /\ rets' = <<subtract(self, arg.b)>>
    /\ UNCHANGED <<self, arg>>

\* let result = MatrixUtilities::multiply(a, b);
Multiply ==
    /\ calls = <<>>
    /\ calls' = <<"multiply">>
    /\ rets' = <<multiply(self, arg.b)>>
    /\ UNCHANGED <<self, arg>>

\* let result = MatrixUtilities::dot(a, b);
Dot ==
    /\ calls = <<>>
    /\ calls' = <<"dot">>
    /\ rets' = <<dot(self, arg.b)>>
    /\ UNCHANGED <<self, arg>>

NextArith == Add \/ Subtract \/ Multiply \/ Dot

SpecArith == InitArith /\ [][NextArith]_vars

\* the result r is Ok with a matrix of the shape of a whose entry (i, j) is
\* a[i][j] + sign * b[i][j]
IsElementwise(r, a, b, sign) ==
    /\ IsOk(r)
    /\ IsMatrix(r.val)
    /\ shape(r.val) = shape(a)
    /\ <<r.val.rows, r.val.cols>> = shape(a)
    /\ \A i \in 1..shape(a)[1] :
          /\ Len(r.val.mat[i]) = shape(a)[2]
          /\ \A j \in 1..shape(a)[2] : r.val.mat[i][j] = a.mat[i][j] + sign * b.mat[i][j]

(* C11: for all matrices a and b, add(a, b) and subtract(a, b) return an
   error when shape(a) # shape(b); otherwise they return a new matrix of the
   same shape whose entry (r, c) is a[r][c] + b[r][c] for add and
   a[r][c] - b[r][c] for subtract, so that subtract(a, a) is the zero
   matrix.  The matrices are stored rectangles, the empty one included. *)
C11_AddSubtractElementwise ==
    (Len(calls) = 1 /\ calls[1] \in {"add", "subtract"}
        /\ WellFormed(self) /\ WellFormed(arg.b)) =>
        /\ shape(self) # shape(arg.b) => IsErr(rets[1])
        /\ (shape(self) = shape(arg.b) /\ calls[1] = "add") =>
              IsElementwise(rets[1], self, arg.b, 1)
        /\ (shape(self) = shape(arg.b) /\ calls[1] = "subtract") =>
              /\ IsElementwise(rets[1], self, arg.b, -1)
              /\ self.mat = arg.b.mat =>
                    \A i \in 1..Len(rets[1].val.mat) :
                        \A j \in 1..Len(rets[1].val.mat[i]) :
                            rets[1].val.mat[i][j] = 0

\* subtract(a, a) has returned the zero matrix for the matrix of
\* test_subtract_matrix
C11_Witness ==
    /\ calls = <<"subtract">>
    /\ self.mat = <<<<1, 2, 3>>, <<4, 5, 6>>>>
    /\ arg.b = self
    /\ rets[1] = Ok(Matrix(<<<<0, 0, 0>>, <<0, 0, 0>>>>, 2, 3))

\* the sum over k in 1..n of A[r][k] * B[k][c]
RECURSIVE Sigma(_, _, _, _, _)
Sigma(A, B, r, c, n) ==
    IF n = 0 THEN 0 ELSE A[r][n] * B[n][c] + Sigma(A, B, r, c, n - 1)

\* the grid P is the product of the m x n grid A and the n x p grid B
IsProduct(P, A, B, m, n, p) ==
    /\ Len(P) = m
    /\ \A r \in 1..m :
          /\ Len(P[r]) = p
          /\ \A c \in 1..p : P[r][c] = Sigma(A, B, r, c, n)

(* C12: for all non-empty matrices a (m x n) and b (n x p), multiply(a, b)
   returns Ok with a matrix of shape (m, p) whose entry (r, c) equals the sum
   over k in 0..n of a[r][k] * b[k][c]. *)
C12_MultiplyIsProduct ==
    (calls = <<"multiply">> /\ WellFormed(self) /\ WellFormed(arg.b)
        /\ self.rows >= 1 /\ arg.b.rows >= 1 /\ self.cols = arg.b.rows) =>
        /\ IsOk(rets[1])
        /\ IsMatrix(rets[1].val)
        /\ rets[1].val.rows = self.rows
        /\ rets[1].val.cols = arg.b.cols
        /\ IsProduct(rets[1].val.mat, self.mat, arg.b.mat,
                     self.rows, self.cols, arg.b.cols)

\* multiply has returned the product of test_multiply_matrix
C12_Witness ==
    /\ calls = <<"multiply">>
    /\ self.mat = <<<<1, 4, -2>>, <<3, 5, -6>>>>
    /\ arg.b.mat = <<<<5, 2, 8, -1>>, <<3, 6, 4, 5>>, <<-2, 9, 7, -3>>>>
    /\ rets[1] = Ok(Matrix(<<<<21, 8, 10, 25>>, <<42, -18, 2, 40>>>>, 2, 4))

(* C13: multiply(a, b) returns a failure result exactly when
   a.cols # b.rows; for every other pair of operands, those with zero rows
   (the empty matrix) included, it returns a success result of shape
   (a.rows, b.cols) and never aborts. *)
C13_MultiplyNeverAborts ==
    (calls = <<"multiply">> /\ WellFormed(self) /\ WellFormed(arg.b)) =>
        /\ rets[1] # Panic
        /\ IsErr(rets[1]) <=> self.cols # arg.b.rows
        /\ self.cols = arg.b.rows =>
              /\ IsOk(rets[1])
              /\ rets[1].val.rows = self.rows
              /\ rets[1].val.cols = arg.b.cols

(* C15: dot(a, b) returns Ok(sum over i of a[0][i] * b[i][0]) exactly when
   a.rows = 1, b.cols = 1 and a.cols = b.rows; in every other case it returns
   an error: the inner-dimension mismatch error when a.cols # b.rows,
   otherwise the row-vector/column-vector error. *)
C15_DotIsGuardedSum ==
    (calls = <<"dot">> /\ WellFormed(self) /\ WellFormed(arg.b)) =>
        /\ (self.rows = 1 /\ arg.b.cols = 1 /\ self.cols = arg.b.rows) =>
              rets[1] = Ok(Sigma(self.mat, arg.b.mat, 1, 1, self.cols))
        /\ self.cols # arg.b.rows => rets[1] = Err(DotMismatch)
        /\ (self.cols = arg.b.rows /\ ~(self.rows = 1 /\ arg.b.cols = 1)) =>
              rets[1] = Err(DotNotVectors)

\* dot has returned 14 for the row and the column vector of test_dot_product
C15_Witness ==
    /\ calls = <<"dot">>
    /\ self.mat = <<<<1, 2, 3>>>>
    /\ arg.b.mat = <<<<1>>, <<2>>, <<3>>>>
    /\ rets[1] = Ok(14)

---------------------------------------------------------------------------
(* Specification SpecAssoc: the two ways of multiplying three integer
   matrices A (self, m x n), B (arg.b, n x p) and C (arg.c, p x q) with
   1..MaxAssocDim rows and columns: A*B, B*C, (A*B)*C, A*(B*C) *)

MaxAssocDim == 2

Operands(b, c) == [b |-> b, c |-> c]

\* the entries of A, B and C: Vals when the three matrices have at most
\* FullCells cells together, else 0..MaxVal
AssocVals(cells) == IF cells <= FullCells THEN Vals ELSE 0..MaxVal

InitAssoc ==
    /\ \E m \in 1..MaxAssocDim : \E n \in 1..MaxAssocDim :
       \E p \in 1..MaxAssocDim : \E q \in 1..MaxAssocDim :
       \E as \in [1..m -> ArithRows(m, n, AssocVals(m * n + n * p + p * q))] :
       \E bs \in [1..n -> ArithRows(n, p, AssocVals(m * n + n * p + p * q))] :
       \E cs \in [1..p -> ArithRows(p, q, AssocVals(m * n + n * p + p * q))] :
          /\ self = Matrix(as, m, n)
          /\ arg = Operands(Matrix(bs, n, p), Matrix(cs, p, q))
    /\ calls = <<>>
    /\ rets = <<>>

\* let ab = MatrixUtilities::multiply(a.clone(), b.clone());
MultiplyAB ==
    /\ calls = <<>>
    /\ calls' = <<"multiply(a, b)">>
    /\ rets' = <<multiply(self, arg.b)>>
    /\ UNCHANGED <<self, arg>>

\* let bc = MatrixUtilities::multiply(b, c.clone());
MultiplyBC ==
    /\ Len(calls) = 1
    /\ calls' = Append(calls, "multiply(b, c)")
    /\ rets' = Append(rets, multiply(arg.b, arg.c))
    /\ UNCHANGED <<self, arg>>

\* let left = MatrixUtilities::multiply(ab.unwrap(), c);
MultiplyAB_C ==
    /\ Len(calls) = 2
    /\ IsOk(rets[1])
    /\ calls' = Append(calls, "multiply(ab, c)")
    /\ rets' = Append(rets, multiply(rets[1].val, arg.c))
    /\ UNCHANGED <<self, arg>>

\* let right = MatrixUtilities::multiply(a, bc.unwrap());
MultiplyA_BC ==
    /\ Len(calls) = 3
    /\ IsOk(rets[2])
    /\ calls' = Append(calls, "multiply(a, bc)")
    /\ rets' = Append(rets, multiply(self, rets[2].val))
    /\ UNCHANGED <<self, arg>>

NextAssoc == MultiplyAB \/ MultiplyBC \/ MultiplyAB_C \/ MultiplyA_BC

SpecAssoc == InitAssoc /\ [][NextAssoc]_vars

(* C14: matrix multiplication is associative: for all integer matrices
   A (m x n), B (n x p), C (p x q) with non-zero dimensions,
   multiply(multiply(A, B), C) equals multiply(A, multiply(B, C)) element
   for element and in shape. *)
C14_MultiplyAssociative ==
    /\ \A k \in 1..Len(calls) : IsOk(rets[k])
    /\ Len(calls) = 4 =>
          /\ rets[3].val.mat = rets[4].val.mat
          /\ rets[3].val.rows = rets[4].val.rows
          /\ rets[3].val.cols = rets[4].val.cols
          /\ <<rets[4].val.rows, rets[4].val.cols>> = <<self.rows, arg.c.cols>>

\* both products of three 2 x 2 matrices that do not commute have been
\* computed
C14_Witness ==
    /\ Len(calls) = 4
    /\ self.mat = <<<<1, 1>>, <<0, 1>>>>
    /\ arg.b.mat = <<<<1, 0>>, <<1, 1>>>>
    /\ arg.c.mat = <<<<0, 1>>, <<1, 1>>>>
    /\ rets[1].val.mat = <<<<2, 1>>, <<1, 1>>>>
    /\ rets[2].val.mat = <<<<0, 1>>, <<1, 2>>>>
    /\ rets[3].val.mat = <<<<1, 3>>, <<1, 2>>>>
    /\ rets[4].val.mat = <<<<1, 3>>, <<1, 2>>>>

---------------------------------------------------------------------------
(* MatrixUtilities::multiply_by_scalar, src/src/matrix_utilities.rs *)

\* `*elem *= constant` over i64
ScaledElemAsSum(elem, constant) == elem + constant

ScaledElem(elem, constant) == elem * constant

\* MatrixUtilities::multiply_by_scalar over i64: the loops
\* `for row in &mut matrix.mat { for elem in Arc::make_mut(row) }` scale
\* every element of every stored row, whatever its length; the fields are
\* left as they are
multiply_by_scalar(matrix, constant) ==
    [matrix EXCEPT !.mat =
        [i \in 1..Len(matrix.mat) |->
            [j \in 1..Len(matrix.mat[i]) |-> ScaledElem(matrix.mat[i][j], constant)]]]

---------------------------------------------------------------------------
(* Specification SpecScalar: multiply_by_scalar on a matrix the caller built
   by appending up to MaxScalarDim rows of up to MaxScalarDim elements each,
   not all of the same length, and a constant of Vals *)

MaxScalarDim == 2

\* the rows of 0..MaxScalarDim elements a caller appends to a matrix of r rows
RaggedRows(r, fixtures) ==
    UNION {RowsFor(r, c, {}) : c \in 0..MaxScalarDim} \cup fixtures

\* the fields after the last append(matrix, row): rows is the number of
\* stored rows, cols the length of the row appended last
Appended(rs) ==
    Matrix(rs, Len(rs), IF Len(rs) = 0 THEN 0 ELSE Len(rs[Len(rs)]))

\* the scalar argument of the call
Scalar(k) == [constant |-> k]

\* rows of the literal matrix of test_multiply_by_scalar
ScalarFixtureRows == {<<1, 2, 3>>, <<4, 5, 6>>}

InitScalar ==
    /\ \E r \in 0..MaxScalarDim :
          \E rs \in [1..r -> RaggedRows(r, ScalarFixtureRows)] :
             self = Appended(rs)
    /\ \E k \in Vals \cup {2} : arg = Scalar(k)
    /\ calls = <<>>
    /\ rets = <<>>

\* let mat = MatrixUtilities::multiply_by_scalar(mat, constant);
MultiplyByScalar ==
    /\ calls = <<>>
    /\ calls' = <<"multiply_by_scalar">>
    /\ rets' = <<multiply_by_scalar(self, arg.constant)>>
    /\ UNCHANGED <<self, arg>>

NextScalar == MultiplyByScalar

SpecScalar == InitScalar /\ [][NextScalar]_vars

(* C16: multiply_by_scalar(m, k) never fails and returns a matrix with the
   same number of rows and the same row lengths as m in which every element
   equals the corresponding element of m multiplied by k. *)
C16_ScalarMultiplies ==
    calls = <<"multiply_by_scalar">> =>
        /\ IsMatrix(rets[1])
        /\ Len(rets[1].mat) = Len(self.mat)
        /\ \A i \in 1..Len(self.mat) :
              /\ Len(rets[1].mat[i]) = Len(self.mat[i])
              /\ \A j \in 1..Len(self.mat[i]) :
                    rets[1].mat[i][j] = self.mat[i][j] * arg.constant

\* multiply_by_scalar has doubled the matrix of test_multiply_by_scalar
C16_Witness ==
    /\ calls = <<"multiply_by_scalar">>
    /\ self.mat = <<<<1, 2, 3>>, <<4, 5, 6>>>>
    /\ arg.constant = 2
    /\ rets[1].mat = <<<<2, 4, 6>>, <<8, 10, 12>>>>

---------------------------------------------------------------------------
(* Matrix::sub_matrix, src/src/matrix.rs.  A Range<usize> start..end is the
   pair <<start, end>>; it is empty when start >= end. *)

OutOfBounds == "Range out of bounds!"

\* Range::len(): end - start, or 0 for a range whose start is not below its end
RangeLen(range) == IF range[1] < range[2] THEN range[2] - range[1] ELSE 0

\* the guard that opens sub_matrix, on the cached fields
RangeRejected(m, row_range, col_range) ==
    row_range[2] > m.rows \/ col_range[2] > m.cols

\* `&self.mat[i][col_range.clone()]` can be taken for every i of row_range:
\* row i is stored and start <= end <= its length
SlicesStored(m, row_range, col_range) ==
    \A i \in (row_range[1] + 1)..row_range[2] :
        /\ i <= Len(m.mat)
        /\ col_range[1] <= col_range[2]
        /\ col_range[2] <= Len(m.mat[i])

\* element l (0-based) of the slice of row i (0-based): self.mat[i][start + l]
SliceElemFromZero(m, i, col_range, l) == m.mat[i + 1][l + 1]

SliceElem(m, i, col_range, l) == m.mat[i + 1][col_range[1] + l + 1]

\* Matrix::sub_matrix
sub_matrix(m, row_range, col_range) ==
    IF RangeRejected(m, row_range, col_range) THEN Err(OutOfBounds)
    ELSE IF ~SlicesStored(m, row_range, col_range) THEN Panic
    ELSE Ok(Matrix([k \in 1..RangeLen(row_range) |->
                       [l \in 1..RangeLen(col_range) |->
                           SliceElem(m, row_range[1] + k - 1, col_range, l - 1)]],
                   RangeLen(row_range), RangeLen(col_range)))

---------------------------------------------------------------------------
(* Specification SpecSub: sub_matrix on a matrix of 0..MaxSubDim rows and
   columns whose elements are numbered row by row, as in test_sub_matrix,
   with any two ranges over 0..MaxSubDim + 1.  An element of calls is here
   the call with the receiver and the arguments it was made with. *)

MaxSubDim == 3

\* the r x c matrix of the elements v, v + 1, ... row by row; Numbered(3, 3, 1)
\* is the matrix of test_sub_matrix
Numbered(r, c, v) ==
    Matrix([i \in 1..r |-> [j \in 1..c |-> v + (i - 1) * c + (j - 1)]], r, c)

Ranges == (0..(MaxSubDim + 1)) \X (0..(MaxSubDim + 1))

SubMatrixCall(m, row_range, col_range) ==
    [name |-> "sub_matrix", self |-> m,
     row_range |-> row_range, col_range |-> col_range]

InitSub ==
    /\ \E r \in 0..MaxSubDim : \E c \in 0..MaxSubDim : \E v \in Vals :
          self = Numbered(r, c, v)
    /\ arg = NoArg
    /\ calls = <<>>
    /\ rets = <<>>

\* let sub = mat.sub_matrix(row_range, col_range); the receiver is borrowed
\* mutably and not written
SubMatrix ==
    /\ calls = <<>>
    /\ \E row_range \in Ranges : \E col_range \in Ranges :
          /\ calls' = <<SubMatrixCall(self, row_range, col_range)>>
          /\ rets' = <<sub_matrix(self, row_range, col_range)>>
    /\ UNCHANGED <<self, arg>>

NextSub == SubMatrix

SpecSub == InitSub /\ [][NextSub]_vars

(* C17: for half-open ranges rs..re and cs..ce with rs <= re <= rows and
   cs <= ce <= cols, sub_matrix returns Ok with a new matrix of shape
   (re - rs, ce - cs) whose entry (i, j) equals self[rs + i][cs + j], and
   leaves the source matrix (its rows, elements and rows/cols fields)
   unchanged. *)
C17_SubMatrixExtracts ==
    (Len(calls) = 1 /\ WellFormed(calls[1].self)
        /\ calls[1].row_range[1] <= calls[1].row_range[2]
        /\ calls[1].row_range[2] <= calls[1].self.rows
        /\ calls[1].col_range[1] <= calls[1].col_range[2]
        /\ calls[1].col_range[2] <= calls[1].self.cols) =>
        LET before == calls[1].self
            rs == calls[1].row_range[1]
            re == calls[1].row_range[2]
            cs == calls[1].col_range[1]
            ce == calls[1].col_range[2]
        IN  /\ IsOk(rets[1])
            /\ IsMatrix(rets[1].val)
            /\ rets[1].val.rows = re - rs
            /\ rets[1].val.cols = ce - cs
            /\ Len(rets[1].val.mat) = re - rs
            /\ \A i \in 1..(re - rs) :
                  /\ Len(rets[1].val.mat[i]) = ce - cs
                  /\ \A j \in 1..(ce - cs) :
                        rets[1].val.mat[i][j] = before.mat[rs + i][cs + j]
            /\ self = before

\* sub_matrix(1..3, 1..3) has returned the lower right corner of the matrix
\* of test_sub_matrix
C17_Witness ==
    /\ Len(calls) = 1
    /\ calls[1].self = Matrix(<<<<1, 2, 3>>, <<4, 5, 6>>, <<7, 8, 9>>>>, 3, 3)
    /\ calls[1].row_range = <<1, 3>>
    /\ calls[1].col_range = <<1, 3>>
    /\ rets[1] = Ok(Matrix(<<<<5, 6>>, <<8, 9>>>>, 2, 2))
    /\ self = calls[1].self

(* C18: for every pair of ranges, sub_matrix returns either Ok or the bounds
   error and never aborts: it returns the bounds error exactly when a range's
   upper bound exceeds the matrix's current row count or current column count
   (as stored in its rows), and every other call, a range whose start exceeds
   its end included, returns a result to the caller. *)
C18_SubMatrixNeverAborts ==
    (Len(calls) = 1 /\ WellFormed(calls[1].self)) =>
        /\ rets[1] # Panic
        /\ IsOk(rets[1]) \/ rets[1] = Err(OutOfBounds)
        /\ rets[1] = Err(OutOfBounds) <=>
              \/ calls[1].row_range[2] > shape(calls[1].self)[1]
              \/ calls[1].col_range[2] > shape(calls[1].self)[2]

---------------------------------------------------------------------------
(* Row storage: `mat: Vec<Arc<[T]>>`, src/src/matrix.rs.  A heap is a
   sequence of buffers [data, strong]: the elements of one row and the number
   of Arcs that point to it.  An Arc is the index of its buffer, and a handle
   is a Matrix whose mat holds Arcs in place of rows. *)

\* Arc::from(row): a fresh buffer with one owner, at the end of the heap
Allocated(heap, data) == Append(heap, [data |-> data, strong |-> 1])

\* the store after the caller has built the matrix m row by row: the heap
\* and the handle m
Built(m) ==
    [heap |-> [i \in 1..Len(m.mat) |-> [data |-> m.mat[i], strong |-> 1]],
     m |-> [m EXCEPT !.mat = [i \in 1..Len(m.mat) |-> i]]]

\* the matrix a handle h denotes
Deref(heap, h) == [h EXCEPT !.mat = [i \in 1..Len(h.mat) |-> heap[h.mat[i]].data]]

\* Arc::clone for every row of the handle h, from row i on: one more owner
RECURSIVE ArcCloned(_, _, _)
ArcCloned(heap, h, i) ==
    IF i > Len(h.mat) THEN heap
    ELSE ArcCloned([heap EXCEPT ![h.mat[i]].strong = @ + 1], h, i + 1)

\* let m2 = m.clone(): #[derive(Clone)] clones the Vec, Arc by Arc, and
\* copies the two fields
Cloned(store) ==
    [heap |-> ArcCloned(store.heap, store.m, 1), m |-> store.m, m2 |-> store.m]

\* Arc::make_mut copies the buffer when another Arc points to it
MustCopyNever(buffer) == FALSE

MustCopy(buffer) == buffer.strong > 1

\* Arc::make_mut(&mut h.mat[i]) followed by the writes that leave `data` in
\* the row: the heap and the handle afterwards
MadeMut(heap, h, i, data) ==
    LET arc == h.mat[i]
    IN  IF MustCopy(heap[arc])
        THEN [heap |-> Allocated([heap EXCEPT ![arc].strong = @ - 1], data),
              h |-> [h EXCEPT !.mat[i] = Len(heap) + 1]]
        ELSE [heap |-> [heap EXCEPT ![arc].data = data], h |-> h]

\* an algorithm that takes the handle h by value and calls Arc::make_mut on
\* the rows `touched`, leaving the rows of the matrix `result` in them, from
\* row i on
RECURSIVE WrittenInPlace(_, _, _, _, _)
WrittenInPlace(heap, h, touched, result, i) ==
    IF i > Len(h.mat) THEN [heap |-> heap, ret |-> h]
    ELSE IF i \in touched
         THEN LET w == MadeMut(heap, h, i, result.mat[i])
              IN  WrittenInPlace(w.heap, w.h, touched, result, i + 1)
         ELSE WrittenInPlace(heap, h, touched, result, i + 1)

\* the rows multiply_by_scalar calls Arc::make_mut on: every stored row
TouchedByScalar(m) == 1..Len(m.mat)

\* the rows the forward pass calls Arc::make_mut on: row 0 when its pivot is
\* not zero and cols > 0 (the call is inside `for c in 0..cols`), and every
\* row j of `for j in (i + 1)..rows`, that is every row but row 0
TouchedByForward(m) ==
    {i \in 1..m.rows : i >= 2 \/ (m.cols > 0 /\ PivotIsSet(m.mat[1][1]))}

\* the rows rref calls Arc::make_mut on: those of the forward pass and every
\* row j of `for j in (0..i).rev()`, that is every row but the last
TouchedByRref(m) == TouchedByForward(m) \cup 1..(m.rows - 1)

\* MatrixUtilities::multiply_by_scalar over T
multiply_by_scalar_T(matrix, constant) ==
    [matrix EXCEPT !.mat =
        [i \in 1..Len(matrix.mat) |->
            [j \in 1..Len(matrix.mat[i]) |-> RMul(matrix.mat[i][j], constant)]]]

---------------------------------------------------------------------------
(* Specification SpecCow: the caller builds a matrix m (self) over T, clones
   it (let m2 = m.clone()) and passes m2 to multiply_by_scalar,
   row_echelon_form or rref.  rets[1] is the store after the clone (heap, m,
   m2), rets[2] the store after the algorithm (heap, m, ret) or Panic. *)

MaxCowDim == 2

InitCow ==
    /\ \E r \in 0..MaxCowDim : \E c \in 0..MaxCowDim :
          \E rs \in [1..r -> ArithRows(r, c, Vals)] :
             self = Matrix(Lifted(rs), r, c)
    /\ \E k \in Vals : arg = Scalar(FromInt(k))
    /\ calls = <<>>
    /\ rets = <<>>

\* let m2 = m.clone();
Clone ==
    /\ calls = <<>>
    /\ calls' = <<"clone">>
    /\ rets' = <<Cloned(Built(self))>>
    /\ UNCHANGED <<self, arg>>

\* the store after the algorithm that returns `result` for the matrix of m2
\* and touches the rows `touched`
AfterInPlace(store, touched, result) ==
    IF ~IsMatrix(result) THEN Panic
    ELSE LET w == WrittenInPlace(store.heap, store.m2, touched, result, 1)
         IN  [heap |-> w.heap, m |-> store.m, ret |-> w.ret]

\* let m2 = MatrixUtilities::multiply_by_scalar(m2, constant);
CowMultiplyByScalar ==
    /\ calls = <<"clone">>
    /\ calls' = Append(calls, "multiply_by_scalar")
    /\ LET m2 == Deref(rets[1].heap, rets[1].m2)
       IN  rets' = Append(rets, AfterInPlace(rets[1], TouchedByScalar(m2),
                                             multiply_by_scalar_T(m2, arg.constant)))
    /\ UNCHANGED <<self, arg>>

\* let m2 = MatrixUtilities::row_echelon_form(m2);
CowRowEchelonForm ==
    /\ calls = <<"clone">>
    /\ calls' = Append(calls, "row_echelon_form")
    /\ LET m2 == Deref(rets[1].heap, rets[1].m2)
       IN  rets' = Append(rets, AfterInPlace(rets[1], TouchedByForward(m2),
                                             row_echelon_form(m2)))
    /\ UNCHANGED <<self, arg>>

\* let m2 = MatrixUtilities::rref(m2);
CowRref ==
    /\ calls = <<"clone">>
    /\ calls' = Append(calls, "rref")
    /\ LET m2 == Deref(rets[1].heap, rets[1].m2)
       IN  rets' = Append(rets, AfterInPlace(rets[1], TouchedByRref(m2), rref(m2)))
    /\ UNCHANGED <<self, arg>>

NextCow == Clone \/ CowMultiplyByScalar \/ CowRowEchelonForm \/ CowRref

SpecCow == InitCow /\ [][NextCow]_vars

(* C19: copy-on-write isolation: when a Matrix m2 shares row storage with
   another Matrix m (m2 = m.clone()), applying an in-place mutating algorithm
   to m2 (multiply_by_scalar, row_echelon_form or rref) changes no element
   visible through m; m's rows are element for element the same before and
   after the call. *)
C19_CopyOnWrite ==
    /\ Len(calls) >= 1 =>
          /\ Deref(rets[1].heap, rets[1].m) = self
          /\ rets[1].m2.mat = rets[1].m.mat
    /\ (Len(calls) = 2 /\ rets[2] # Panic) =>
          Deref(rets[2].heap, rets[2].m) = self

\* rref has reduced the clone m2 of [[1, 1], [1, 0]] to the identity in two
\* copied rows, and m still shows [[1, 1], [1, 0]]
C19_Witness ==
    /\ calls = <<"clone", "rref">>
    /\ self.mat = Lifted(<<<<1, 1>>, <<1, 0>>>>)
    /\ rets[2] # Panic
    /\ Len(rets[2].heap) = 4
    /\ Deref(rets[2].heap, rets[2].ret).mat = Lifted(<<<<1, 0>>, <<0, 1>>>>)
    /\ Deref(rets[2].heap, rets[2].m).mat = Lifted(<<<<1, 1>>, <<1, 0>>>>)

---------------------------------------------------------------------------
(* MatrixUtilities::append and append_multiple, src/src/matrix_utilities.rs *)

\* MatrixUtilities::append: the row is pushed, rows is the new number of
\* stored rows and cols the length of the row pushed
append(matrix, row) ==
    Matrix(Append(matrix.mat, row), Len(matrix.mat) + 1, Len(row))

\* MatrixUtilities::append_multiple: the rows are pushed in order, rows is
\* the new number of stored rows, and cols the length of rows[0] unless
\* `rows` is empty
append_multiple(matrix, rows) ==
    Matrix(matrix.mat \o rows, Len(matrix.mat) + Len(rows),
           IF rows # <<>> THEN Len(rows[1]) ELSE matrix.cols)

---------------------------------------------------------------------------
(* Specification SpecAppend: up to MaxCalls calls of append and
   append_multiple, the first on Matrix::default() and each later one on the
   matrix the call before it returned, with rows of 0..MaxAppendLen elements
   and slices of 0..MaxAppendRows rows *)

MaxAppendLen == 2
MaxAppendRows == 2

\* the rows a caller passes: one value of Vals repeated 0..MaxAppendLen
\* times, and the row of test_matrix and test_shape
AppendRows ==
    UNION {ConstRows(c, Vals) : c \in 0..MaxAppendLen} \cup {<<1, 2, 3>>}

\* the slices of rows a caller passes to append_multiple
AppendSlices == UNION {[1..n -> AppendRows] : n \in 0..MaxAppendRows}

InitAppend ==
    /\ self = Default
    /\ arg = NoArg
    /\ calls = <<>>
    /\ rets = <<>>

\* mat = MatrixUtilities::append(mat, &row);
AppendRow ==
    /\ Len(calls) < MaxCalls
    /\ \E row \in AppendRows :
          rets' = Append(rets, append(Cur, row))
    /\ calls' = Append(calls, "append")
    /\ UNCHANGED <<self, arg>>

\* mat = MatrixUtilities::append_multiple(mat, rows);
AppendMultiple ==
    /\ Len(calls) < MaxCalls
    /\ \E rows \in AppendSlices :
          rets' = Append(rets, append_multiple(Cur, rows))
    /\ calls' = Append(calls, "append_multiple")
    /\ UNCHANGED <<self, arg>>

NextAppend == AppendRow \/ AppendMultiple

SpecAppend == InitAppend /\ [][NextAppend]_vars

(* C20: in every Matrix reachable from the empty matrix by any sequence of
   append and append_multiple calls (with rows of arbitrary lengths), if
   rows > 0 then every stored row has exactly `cols` elements. *)
C20_RowsHaveColsElements ==
    \A k \in 1..Len(rets) :
        rets[k].rows > 0 =>
            \A i \in 1..Len(rets[k].mat) : Len(rets[k].mat[i]) = rets[k].cols

(* C22: after any sequence of append and append_multiple calls starting
   from the empty matrix, the rows and cols fields equal what shape()
   recomputes from storage: the number of stored rows, and the length of the
   first row or 0 when there are no rows. *)
C22_CachedShapeNeverStale ==
    \A k \in 1..Len(rets) : <<rets[k].rows, rets[k].cols>> = shape(rets[k])

---------------------------------------------------------------------------
(* Specification SpecPublic: up to MaxCalls public operations, the first on
   Matrix::default() and each later one on the matrix `mat` the program holds:
   what an operation returns is bound to `mat` when it is a matrix (the
   payload of Ok included), and `mat` is kept when it is an Err.  The second
   operand of add, subtract and multiply is `mat` itself or any matrix
   produced before.  An abort ends the program. *)

MaxPublicLen == 2

\* the rows a caller appends: 0..MaxPublicLen elements, all 1
PublicRows == UNION {ConstRows(c, {1}) : c \in 0..MaxPublicLen}

\* the slices of rows a caller passes to append_multiple
PublicSlices == UNION {[1..n -> PublicRows] : n \in 0..MaxPublicLen}

\* the ranges a caller passes to sub_matrix
PublicRanges == (0..MaxPublicLen) \X (0..MaxPublicLen)

\* the matrix a result carries, if any
Carried(r) ==
    IF IsMatrix(r) THEN {r} ELSE IF IsOk(r) /\ IsMatrix(r.val) THEN {r.val} ELSE {}

\* the matrices the program has produced so far
Produced == {Default, self} \cup UNION {Carried(rets[k]) : k \in 1..Len(rets)}

\* no call has aborted and fewer than MaxCalls calls were made
Running == Len(calls) < MaxCalls /\ \A k \in 1..Len(rets) : rets[k] # Panic

\* the program after the call `name` returned r
Returned(name, r) ==
    /\ calls' = Append(calls, name)
    /\ rets' = Append(rets, r)
    /\ self' = IF Carried(r) = {} THEN self ELSE CHOOSE m \in Carried(r) : TRUE
    /\ UNCHANGED arg

InitPublic ==
    /\ self = Default
    /\ arg = NoArg
    /\ calls = <<>>
    /\ rets = <<>>

\* mat = Matrix::default();
PublicDefault == Running /\ Returned("default", Default)

\* mat = MatrixUtilities::append(mat, &row);
PublicAppend ==
    /\ Running
    /\ \E row \in PublicRows : Returned("append", append(self, row))

\* mat = MatrixUtilities::append_multiple(mat, rows);
PublicAppendMultiple ==
    /\ Running
    /\ \E rows \in PublicSlices :
          Returned("append_multiple", append_multiple(self, rows))

\* mat = mat.sub_matrix(row_range, col_range)?;
PublicSubMatrix ==
    /\ Running
    /\ \E row_range \in PublicRanges : \E col_range \in PublicRanges :
          Returned("sub_matrix", sub_matrix(self, row_range, col_range))

\* mat = mat.transpose();
PublicTranspose == Running /\ Returned("transpose", transpose(self))

\* mat = MatrixUtilities::add(mat.clone(), b)?;
PublicAdd ==
    /\ Running
    /\ \E b \in Produced : Returned("add", add(self, b))

\* mat = MatrixUtilities::subtract(mat.clone(), b)?;
PublicSubtract ==
    /\ Running
    /\ \E b \in Produced : Returned("subtract", subtract(self, b))

\* mat = MatrixUtilities::multiply(mat.clone(), b)?;
PublicMultiply ==
    /\ Running
    /\ \E b \in Produced : Returned("multiply", multiply(self, b))

\* mat = MatrixUtilities::multiply_by_scalar(mat, constant);
PublicMultiplyByScalar ==
    /\ Running
    /\ \E constant \in Vals :
          Returned("multiply_by_scalar", multiply_by_scalar(self, constant))

NextPublic ==
    \/ PublicDefault
    \/ PublicAppend
    \/ PublicAppendMultiple
    \/ PublicSubMatrix
    \/ PublicTranspose
    \/ PublicAdd
    \/ PublicSubtract
    \/ PublicMultiply
    \/ PublicMultiplyByScalar

SpecPublic == InitPublic /\ [][NextPublic]_vars

(* C21: in every Matrix produced by any sequence of public operations
   starting from the empty matrix (default, append, append_multiple,
   sub_matrix, transpose, add, subtract, multiply, multiply_by_scalar),
   rows == 0 implies cols == 0. *)
C21_NoRowsNoCols ==
    \A m \in Produced : m.rows = 0 => m.cols = 0

---------------------------------------------------------------------------
(* MatrixUtilities::lu_decomposition, called by
   src/tests/matrix_operations_tests.rs and described as Doolittle
   elimination without row exchanges: L starts as the identity and U as a
   copy of the matrix; for each pivot column i and each row j below it the
   multiplier U[j][i] / U[i][i] is recorded in L[j][i] and that multiple of
   row i is subtracted from row j of U.  T is the exact arithmetic above, in
   which a division by zero aborts. *)

NotSquareLU == "Matrix must be square for LU decomposition."

\* the n x n identity matrix over T
Identity(n) ==
    Matrix([i \in 1..n |-> [j \in 1..n |-> IF i = j THEN One ELSE Zero]], n, n)

\* the multiplier of row j for the pivot column i (0-based)
LUMultiplierUndivided(u, j, i) == u.mat[j + 1][i + 1]

LUMultiplier(u, j, i) == RDiv(u.mat[j + 1][i + 1], u.mat[i + 1][i + 1])

\* the pair (l, u) after the rows j.. below the pivot row i were eliminated
RECURSIVE LUEliminateBelow(_, _, _, _)
LUEliminateBelow(lu, i, j, n) ==
    IF lu = Panic \/ j >= n THEN lu
    ELSE IF lu.u.mat[i + 1][i + 1] = Zero THEN Panic
    ELSE LET factor == LUMultiplier(lu.u, j, i)
         IN  LUEliminateBelow(
                [l |-> [lu.l EXCEPT !.mat[j + 1][i + 1] = factor],
                 u |-> [lu.u EXCEPT !.mat[j + 1] =
                          [c \in 1..n |->
                              RSub(@[c], RMul(factor, lu.u.mat[i + 1][c]))]]],
                i, j + 1, n)

\* the elimination over the pivot columns i..
RECURSIVE LUForward(_, _, _)
LUForward(lu, i, n) ==
    IF lu = Panic \/ i >= n THEN lu
    ELSE LUForward(LUEliminateBelow(lu, i, i + 1, n), i + 1, n)

\* MatrixUtilities::lu_decomposition(&matrix)
lu_decomposition(matrix) ==
    IF matrix.rows # matrix.cols THEN Err(NotSquareLU)
    ELSE LET lu == LUForward([l |-> Identity(matrix.rows), u |-> matrix],
                             0, matrix.rows)
         IN  IF lu = Panic THEN Panic ELSE Ok(<<lu.l, lu.u>>)

---------------------------------------------------------------------------
(* Specification SpecLU: lu_decomposition on a stored r x c matrix over the
   rationals, r and c in 0..MaxLUDim, square or not *)

MaxLUDim == 3
\* a shape with more than FullCells and at most LUCells cells is enumerated
\* entry by entry over 0..MaxVal
LUCells == 9

\* rows of the matrices of test_lu_decomposition and
\* test_lu_decomposition_non_square_matrix, by width
LUFixtureRows(c) ==
    CASE c = 2 -> {<<4, 3>>, <<6, 3>>}
      [] c = 3 -> {<<2, 3, 1>>, <<4, 7, 3>>}
      [] OTHER -> {}

\* the rows an r x c matrix is built from
LURows(r, c) ==
    IF r * c <= FullCells THEN [1..c -> Vals] \cup LUFixtureRows(c)
    ELSE IF r * c <= LUCells THEN [1..c -> 0..MaxVal] \cup LUFixtureRows(c)
    ELSE SparseRows(c)

InitLU ==
    /\ \E r \in 0..MaxLUDim : \E c \in 0..MaxLUDim :
          \E rs \in [1..r -> LURows(r, c)] :
             self = Matrix(Lifted(rs), r, c)
    /\ arg = NoArg
    /\ calls = <<>>
    /\ rets = <<>>

\* let result = MatrixUtilities::lu_decomposition(&matrix);
LuDecomposition ==
    /\ calls = <<>>
    /\ calls' = <<"lu_decomposition">>
    /\ rets' = <<lu_decomposition(self)>>
    /\ UNCHANGED <<self, arg>>

NextLU == LuDecomposition

SpecLU == InitLU /\ [][NextLU]_vars

\* sum over k = 1..n of A[r][k] * B[k][c] over T
RECURSIVE RSigma(_, _, _, _, _)
RSigma(A, B, r, c, n) ==
    IF n = 0 THEN Zero ELSE RAdd(RSigma(A, B, r, c, n - 1), RMul(A[r][n], B[n][c]))

\* the n x n grid P is the product of the n x n grids A and B
IsSquareProduct(P, A, B, n) ==
    \A r \in 1..n : \A c \in 1..n : P[r][c] = RSigma(A, B, r, c, n)

(* C23: for every square matrix A on which lu_decomposition succeeds, the
   returned pair (L, U) has the shape of A, L is unit lower-triangular (1 on
   the diagonal, 0 above it), U is upper-triangular (0 below the diagonal),
   and L x U equals A; for every non-square matrix lu_decomposition fails
   with the error "Matrix must be square for LU decomposition.". *)
C23_LuFactorises ==
    calls = <<"lu_decomposition">> =>
        /\ (self.rows # self.cols) =>
              rets[1] = Err("Matrix must be square for LU decomposition.")
        /\ (self.rows = self.cols /\ IsOk(rets[1])) =>
              LET n == self.rows
                  L == rets[1].val[1]
                  U == rets[1].val[2]
              IN  /\ IsSquare(L, n) /\ IsSquare(U, n)
                  /\ \A i \in 1..n : L.mat[i][i] = One
                  /\ \A i \in 1..n : \A j \in (i + 1)..n : L.mat[i][j] = Zero
                  /\ \A i \in 1..n : \A j \in 1..(i - 1) : U.mat[i][j] = Zero
                  /\ IsSquareProduct(self.mat, L.mat, U.mat, n)

\* test_lu_decomposition: [[4,3],[6,3]] = [[1,0],[3/2,1]] x [[4,3],[0,-3/2]]
C23_Witness ==
    /\ calls = <<"lu_decomposition">>
    /\ self.mat = Lifted(<<<<4, 3>>, <<6, 3>>>>)
    /\ IsOk(rets[1])
    /\ rets[1].val[1].mat = <<<<One, Zero>>, <<Rat(3, 2), One>>>>
    /\ rets[1].val[2].mat = <<<<FromInt(4), FromInt(3)>>, <<Zero, Rat(-3, 2)>>>>

---------------------------------------------------------------------------
(* MatrixUtilities::inverse, called by src/tests/inverse_matrix_tests.rs and
   described as Gauss-Jordan elimination on the matrix augmented with the
   identity: for each column i a row at or below i with a non-zero entry in
   that column is swapped into place i (there is none exactly when the
   matrix is singular, and inverse then fails), row i is divided by the
   pivot, and its multiples are subtracted from every other row; the right
   block is the inverse.  T is the exact arithmetic above. *)

\* the error of a singular matrix; the tests fix no text
Singular == "Matrix is singular and cannot be inverted."

\* the n x 2n matrix [A | I]
AugmentedWithIdentity(matrix, n) ==
    Matrix([i \in 1..n |-> matrix.mat[i] \o Identity(n).mat[i]], n, 2 * n)

\* the first row k.. (0-based) with a non-zero entry in column i, or -1
RECURSIVE InversePivotRow(_, _, _, _)
InversePivotRow(aug, i, k, n) ==
    IF k >= n THEN -1
    ELSE IF aug.mat[k + 1][i + 1] # Zero THEN k
    ELSE InversePivotRow(aug, i, k + 1, n)

\* an entry of the pivot row after the division by the pivot
InverseUnscaled(x, pivot) == x

InverseScaled(x, pivot) == RDiv(x, pivot)

\* row i divided by its pivot, and its multiples subtracted from the others
InverseEliminated(aug, i, n) ==
    LET pivot == aug.mat[i + 1][i + 1]
        pivot_row == [c \in 1..(2 * n) |-> InverseScaled(aug.mat[i + 1][c], pivot)]
    IN  [aug EXCEPT !.mat =
            [j \in 1..n |->
                IF j = i + 1 THEN pivot_row
                ELSE [c \in 1..(2 * n) |->
                         RSub(aug.mat[j][c], RMul(aug.mat[j][i + 1], pivot_row[c]))]]]

\* the elimination over the columns i..: the reduced matrix, or None when a
\* column has no pivot
RECURSIVE InverseForward(_, _, _)
InverseForward(aug, i, n) ==
    IF i >= n THEN aug
    ELSE LET p == InversePivotRow(aug, i, i, n)
         IN  IF p < 0 THEN None
             ELSE InverseForward(InverseEliminated(Swapped(aug, i, p), i, n),
                                 i + 1, n)

\* MatrixUtilities::inverse(matrix) for a square matrix
inverse(matrix) ==
    LET n == matrix.rows
        red == InverseForward(AugmentedWithIdentity(matrix, n), 0, n)
    IN  IF red = None THEN Err(Singular)
        ELSE Ok(Matrix([i \in 1..n |-> [j \in 1..n |-> red.mat[i][n + j]]], n, n))

---------------------------------------------------------------------------
(* Specification SpecInverse: inverse on a stored n x n matrix over the
   rationals, n in 1..MaxInverseDim *)

MaxInverseDim == 3

\* rows of the matrices of test_inverse and test_non_invertible_matrix
InverseFixtureRows(c) ==
    IF c = 2 THEN {<<4, 7>>, <<2, 6>>, <<2, 4>>, <<1, 2>>} ELSE {}

\* the rows an n x n matrix is built from
InverseRows(n) ==
    IF n * n <= FullCells THEN [1..n -> Vals] \cup InverseFixtureRows(n)
    ELSE IF n * n <= LUCells THEN [1..n -> 0..MaxVal]
    ELSE SparseRows(n)

InitInverse ==
    /\ \E n \in 1..MaxInverseDim : \E rs \in [1..n -> InverseRows(n)] :
          self = Matrix(Lifted(rs), n, n)
    /\ arg = NoArg
    /\ calls = <<>>
    /\ rets = <<>>

\* let result = MatrixUtilities::inverse(matrix);
Inverse ==
    /\ calls = <<>>
    /\ calls' = <<"inverse">>
    /\ rets' = <<inverse(self)>>
    /\ UNCHANGED <<self, arg>>

NextInverse == Inverse

SpecInverse == InitInverse /\ [][NextInverse]_vars

(* C24: for every square matrix A, inverse(A) fails when A is singular
   (determinant zero) and otherwise returns a matrix B of the same shape
   with B x A equal to the identity matrix; in particular
   inverse([[2,4],[1,2]]) fails. *)
C24_InverseInverts ==
    calls = <<"inverse">> =>
        LET n == self.rows
        IN  /\ LeibnizDet(Unlifted(self.mat), n) = 0 => IsErr(rets[1])
            /\ LeibnizDet(Unlifted(self.mat), n) # 0 =>
                  /\ IsOk(rets[1])
                  /\ IsSquare(rets[1].val, n)
                  /\ IsSquareProduct(Identity(n).mat, rets[1].val.mat, self.mat, n)
            /\ self.mat = Lifted(<<<<2, 4>>, <<1, 2>>>>) => IsErr(rets[1])

\* test_inverse: the inverse of [[4,7],[2,6]] is [[3/5,-7/10],[-1/5,2/5]]
C24_Witness ==
    /\ calls = <<"inverse">>
    /\ self.mat = Lifted(<<<<4, 7>>, <<2, 6>>>>)
    /\ IsOk(rets[1])
    /\ rets[1].val.mat = <<<<Rat(3, 5), Rat(-7, 10)>>, <<Rat(-1, 5), Rat(2, 5)>>>>

---------------------------------------------------------------------------
(* Specification SpecPivot: System::gaussian_elimination on the systems of
   SpecSystem, one step of the function at a time.  calls lists the steps
   taken and rets the augmented matrix after each of them (or Panic), the
   last element being what the function returns. *)

\* the last step taken and what it left
LastStep == IF calls = <<>> THEN "" ELSE calls[Len(calls)]
LastAug == rets[Len(rets)]

\* the number of turns of `for i in 0..n` that have begun
Turns == Cardinality({k \in 1..Len(calls) : calls[k] = "swap"})

\* the guard, and the loop that appends the constants
PivotAugment ==
    /\ calls = <<>>
    /\ IF SystemShapeRejected(self, self.rows)
       THEN calls' = <<"return">> /\ rets' = <<Err(ShapeMismatch)>>
       ELSE /\ calls' = <<"augmented">>
            /\ rets' = <<Augmented(self, arg.constants, 0, self.rows)>>
    /\ UNCHANGED <<self, arg>>

\* the search for max_row and `augmented.mat.swap(i, max_row)`
PivotSwap ==
    /\ LastStep \in {"augmented", "eliminated"}
    /\ IsMatrix(LastAug)
    /\ Turns < self.rows
    /\ LET max_row == MaxRow(LastAug, Turns, Turns + 1, self.rows, Turns)
       IN  rets' = Append(rets, IF max_row < 0 THEN Panic
                                ELSE Swapped(LastAug, Turns, max_row))
    /\ calls' = Append(calls, "swap")
    /\ UNCHANGED <<self, arg>>

\* the loop `for k in (i + 1)..n` of the turn that swapped
PivotEliminate ==
    /\ LastStep = "swap"
    /\ IsMatrix(LastAug)
    /\ rets' = Append(rets, SystemEliminate(LastAug, Turns - 1, Turns, self.rows))
    /\ calls' = Append(calls, "eliminated")
    /\ UNCHANGED <<self, arg>>

\* the back-substitution and `Ok(solution)`
PivotBackSubstitute ==
    /\ LastStep \in {"augmented", "eliminated"}
    /\ IsMatrix(LastAug)
    /\ Turns = self.rows
    /\ rets' = Append(rets, BackSubstitution(LastAug, [i \in 1..self.rows |-> Zero],
                                             self.rows - 1, self.rows))
    /\ calls' = Append(calls, "return")
    /\ UNCHANGED <<self, arg>>

NextPivot == PivotAugment \/ PivotSwap \/ PivotEliminate \/ PivotBackSubstitute

SpecPivot == InitSystem /\ [][NextPivot]_vars

\* the absolute value over T
RAbs(x) == <<Abs(x[1]), x[2]>>

(* C25: partial pivoting in the linear system solver: at every elimination
   step i, after the row swap, the entry at (i, i) of the augmented matrix
   has the maximum absolute value among the column-i entries of rows
   i..n-1 (so a zero pivot is used only when every candidate in the column
   is zero). *)
C25_PivotIsLargest ==
    \A k \in 1..Len(calls) :
        (calls[k] = "swap" /\ IsMatrix(rets[k])) =>
            LET i == Cardinality({h \in 1..k : calls[h] = "swap"})
            IN  \A r \in i..self.rows :
                    (i <= Len(rets[k].mat[i]) /\ i <= Len(rets[k].mat[r])) =>
                        ~RLess(RAbs(rets[k].mat[i][i]), RAbs(rets[k].mat[r][i]))

---------------------------------------------------------------------------
(* Specification SpecRect: row_echelon_form, rref and gaussian_elimination
   on a stored r x c matrix over the rationals, r and c in 0..MaxRectDim,
   with more rows than columns or not *)

MaxRectDim == 3

InitRect ==
    /\ \E r \in 0..MaxRectDim : \E c \in 0..MaxRectDim :
          \E rs \in [1..r -> RowsFor(r, c, ReduceFixtureRows(c))] :
             self = Matrix(Lifted(rs), r, c)
    /\ arg = NoArg
    /\ calls = <<>>
    /\ rets = <<>>

SpecRect == InitRect /\ [][NextReduce]_vars

(* C26: row_echelon_form and rref (and therefore gaussian_elimination)
   complete without aborting on every rectangular matrix, including
   matrices with more rows than columns, and return a matrix with the same
   number of rows and columns as the input. *)
C26_ReductionNeverAborts ==
    \A k \in 1..Len(calls) :
        WellFormed(Input(k)) =>
            /\ rets[k] # Panic
            /\ calls[k] \in {"row_echelon_form", "rref"} =>
                  /\ IsMatrix(rets[k])
                  /\ rets[k].rows = Input(k).rows
                  /\ rets[k].cols = Input(k).cols

(* C27: rref is idempotent: for every matrix M with rows <= cols over exact
   arithmetic, rref(rref(M)) equals rref(M) element for element (a matrix
   already returned by rref is a fixed point, including when a zero pivot
   was met during the first reduction). *)
C27_RrefIdempotent ==
    (Len(calls) >= 2 /\ calls[1] = "rref" /\ calls[2] = "rref"
        /\ WellFormed(self) /\ self.rows <= self.cols) =>
        rets[2] = rets[1]

====
